---- MODULE Spec2Model ----
(***************************************************************************)
(* Podssistant: the thread/queue choreography of the podcast assistant.    *)
(*                                                                         *)
(* Two applications live in the repository and both are modelled:          *)
(*   - src/podcast_assistant.py: the single-file application (audio        *)
(*     handler, Azure speech-to-text, Azure OpenAI, wake word, Tk poll      *)
(*     loop).  Its specification is Spec.                                   *)
(*   - src/podcast_assistant_app.py with audio_handler.py,                  *)
(*     speech_to_text_service.py, language_model_service.py and             *)
(*     wake_word_detector.py: the modular application.  Its specification   *)
(*     is SpecApp.                                                          *)
(*                                                                         *)
(* A handler that runs on the Tk thread is one action (Tk runs one callback *)
(* at a time); a worker thread is one action per loop iteration or per      *)
(* blocking call; a vendor callback is one action.  Vendor calls that can   *)
(* fail take their outcome as an input of the action.                       *)
(***************************************************************************)
EXTENDS Integers, Sequences, FiniteSets, TLC

(* ------------------------------ bounds --------------------------------- *)
\* audio frames the device delivers in one run
MaxFrames == 2
\* clicks on "Start Listening" / "Start Recording" in one run
MaxStarts == 2
\* events the speech backend raises in one run
MaxSttEvents == 2
\* events the keyword backend raises in one run
MaxWakeEvents == 2
\* edits of the question entry in one run
MaxAsks == 2
\* vendor calls that fail (raise or time out) in one run
MaxFaults == 1
\* all of the above together: what the user, the devices and the backends do in one run
MaxInputs == 3
\* characters of a long utterance that the speech backend recognizes in one piece
LongLen == 2001
\* lines the backend sends on one streamed answer
MaxLines == 3
\* devices that sd.query_devices() reports
MaxDevices == 3

(* ------------------------------ values --------------------------------- *)
\* audio_queue.put(None): the stop sentinel; the frames are numbered from 1
Sentinel == 0
\* whitespace token of a text
WS == " "
\* a text is a sequence of tokens; str.strip() removes the whitespace at both ends
RECURSIVE lstrip(_)
lstrip(s) == IF s # <<>> /\ Head(s) = WS THEN lstrip(Tail(s)) ELSE s

RECURSIVE rstrip(_)
rstrip(s) == IF s # <<>> /\ s[Len(s)] = WS THEN rstrip(SubSeq(s, 1, Len(s) - 1)) ELSE s

strip(s) == rstrip(lstrip(s))

\* str.startswith
startswith(s, p) == Len(s) >= Len(p) /\ SubSeq(s, 1, Len(p)) = p

\* the placeholder of the question entry
Placeholder == <<"Type", WS, "your", WS, "question", WS, "here...">>

\* what listen_for_single_question_async returns
QuestionRecognized == <<"what", WS, "was", WS, "said?">>
QuestionNoMatch == <<>>
QuestionCanceled == <<"Error:", WS, "Question", WS, "reco", WS, "canceled">>
QuestionNotConfigured == <<"Error:", WS, "Speech", WS, "service", WS, "not", WS, "configured">>
QuestionException == <<"Exception", WS, "during", WS, "question", WS, "capture:", WS, "timeout">>

\* what the user types into the question entry
TypedQuestions == {<<"why?">>, <<>>, <<WS>>}

(* --------------------- state of podcast_assistant.py ------------------- *)
VARIABLES
  audio_handler,          \* AudioHandler: is_recording, input_stream, selected format, device stream
  audio_queue,            \* AudioHandler.audio_queue
  stt_service,            \* SpeechToTextService: is_configured, _processing_audio_active, recognizer, push_stream
  audio_threads,          \* live _audio_processor_thread_target threads
  stt_backend,            \* the recognizers that can still raise events, and what was written to them
  stt_results_queue,      \* stt_results_queue
  stt_errors_queue,       \* stt_errors_queue
  wake_word_detector,     \* WakeWordDetector: is_configured, keyword_recognizer, is_detecting, connections
  wake_word_event_queue,  \* wake_word_event_queue
  llm_service,            \* LanguageModelService: is_configured
  llm_threads,            \* live _ask_llm_thread_target threads (calls in flight)
  llm_results_queue,      \* llm_results_queue
  app,                    \* PodcastAssistantApp: full_transcription, context_for_spoken_question, is_listening_for_question
  ui,                     \* the widgets the handlers read: buttons, the question entry, a key held down, the last message box
  recording_threads,      \* live _recording_target threads
  capture_threads,        \* live _capture_and_process_spoken_question threads
  after_queue,            \* callbacks scheduled with root.after by the capture thread
  env                     \* how many frames, clicks, backend events and faults the run has used,
                          \* and the questions of the requests the LLM backend failed

monoVars == <<audio_handler, audio_queue, stt_service, audio_threads, stt_backend,
              stt_results_queue, stt_errors_queue, wake_word_detector,
              wake_word_event_queue, llm_service, llm_threads, llm_results_queue,
              app, ui, recording_threads, capture_threads, after_queue, env>>

\* the whole state as one record, so that a method is an operator from state to state
World == [ah |-> audio_handler, aq |-> audio_queue, stt |-> stt_service,
          thr |-> audio_threads, be |-> stt_backend, rq |-> stt_results_queue,
          eq |-> stt_errors_queue, wwd |-> wake_word_detector,
          wq |-> wake_word_event_queue, llm |-> llm_service, lt |-> llm_threads,
          lq |-> llm_results_queue, app |-> app, ui |-> ui,
          rec |-> recording_threads, cap |-> capture_threads,
          aft |-> after_queue, env |-> env]

Commit(w) ==
  /\ audio_handler' = w.ah
  /\ audio_queue' = w.aq
  /\ stt_service' = w.stt
  /\ audio_threads' = w.thr
  /\ stt_backend' = w.be
  /\ stt_results_queue' = w.rq
  /\ stt_errors_queue' = w.eq
  /\ wake_word_detector' = w.wwd
  /\ wake_word_event_queue' = w.wq
  /\ llm_service' = w.llm
  /\ llm_threads' = w.lt
  /\ llm_results_queue' = w.lq
  /\ app' = w.app
  /\ ui' = w.ui
  /\ recording_threads' = w.rec
  /\ capture_threads' = w.cap
  /\ after_queue' = w.aft
  /\ env' = w.env

\* what the environment has done so far
Inputs(e) == e.frames + e.starts + e.stt_events + e.wake_events + e.asks + e.faults

\* a vendor call fails only while the run has faults left
MayFail(w) == w.env.faults < MaxFaults /\ Inputs(w.env) < MaxInputs
Fault(w) == [w EXCEPT !.env.faults = @ + 1]
Outcomes(w, bad) == {"ok"} \cup (IF MayFail(w) THEN bad ELSE {})
Charge(w, outcome) == IF outcome = "ok" THEN w ELSE Fault(w)

(* ------------------------------ AudioHandler --------------------------- *)
\* _audio_callback: a frame is queued only while is_recording
ah_audio_callback(w, frame) ==
  IF w.ah.is_recording THEN [w EXCEPT !.aq = Append(@, frame)] ELSE w

\* start_recording, up to the device query: the format of the device is selected
ah_start_query(w, outcome) ==
  IF w.ah.is_recording THEN w
  ELSE IF outcome = "ok" THEN [w EXCEPT !.ah.format = TRUE]
  ELSE [w EXCEPT !.ah.is_recording = FALSE, !.ah.format = FALSE]

\* start_recording, from sd.InputStream(...) on: the stream is opened and started
\* a start that keeps the negotiated format when the device fails to open
ah_start_open_keeping_format(w, outcome) ==
  CASE outcome = "ok" ->
         [w EXCEPT !.ah.input_stream = TRUE, !.ah.streams = @ + 1,
                   !.ah.is_recording = TRUE]
    [] outcome = "open_raises" -> w
    [] OTHER -> [w EXCEPT !.ah.input_stream = TRUE]

ah_start_open(w, outcome) ==
  CASE outcome = "ok" ->
         [w EXCEPT !.ah.input_stream = TRUE, !.ah.streams = @ + 1,
                   !.ah.is_recording = TRUE]
    [] outcome = "open_raises" ->
         [w EXCEPT !.ah.is_recording = FALSE, !.ah.format = FALSE]
    [] OTHER ->  \* "start_raises": the stream object exists and does not run
         [w EXCEPT !.ah.input_stream = TRUE, !.ah.is_recording = FALSE,
                   !.ah.format = FALSE]

\* stop_recording
ah_stop_recording(w, outcome) ==
  IF ~w.ah.is_recording \/ ~w.ah.input_stream THEN w
  ELSE CASE outcome = "ok" ->
              [w EXCEPT !.ah.streams = IF @ > 0 THEN @ - 1 ELSE 0,
                        !.ah.is_recording = FALSE,
                        !.ah.input_stream = FALSE,
                        !.aq = Append(@, Sentinel)]
         [] outcome = "stop_raises" ->
              [w EXCEPT !.ah.input_stream = FALSE]
         [] OTHER ->  \* "close_raises": the stream is stopped, close() raises
              [w EXCEPT !.ah.streams = IF @ > 0 THEN @ - 1 ELSE 0,
                        !.ah.input_stream = FALSE]

\* get_audio_format: the selected format, else the default device's (or 44100/1)
ah_get_audio_format(w) == IF w.ah.format THEN "device" ELSE "default"

(* --------------------------- SpeechToTextService ----------------------- *)
stt_put_error(w, message) == [w EXCEPT !.eq = Append(@, message)]

\* push_stream.close() behind "if self.push_stream"
stt_close_push_stream(w) ==
  IF w.stt.push_stream # "none" THEN [w EXCEPT !.stt.push_stream = "closed"] ELSE w

\* _initialize_recognizer; TRUE when it returns True
stt_initialize_recognizer_ok(w) == w.stt.is_configured

stt_initialize_recognizer(w) ==
  IF ~w.stt.is_configured
  THEN stt_put_error(w, "STT Error: Not configured, cannot initialize recognizer.")
  ELSE [w EXCEPT !.stt.push_stream = "open",
                 !.stt.speech_recognizer = TRUE,
                 !.stt.stream_format = ah_get_audio_format(w),
                 \* a recognizer that was never stopped keeps running
                 !.be.leaked = IF w.be.current THEN @ + 1 ELSE @,
                 !.be.current = FALSE]

\* threading.Thread(target=self._audio_processor_thread_target).start()
stt_spawn_audio_thread(w) ==
  [w EXCEPT !.thr = Append([i \in 1..Len(w.thr) |-> [w.thr[i] EXCEPT !.tracked = FALSE]],
                           [pc |-> "loop", chunk |-> Sentinel, tracked |-> TRUE])]

\* start(audio_input_queue_ref); outcome "raises": a speech SDK constructor raises
stt_start(w, outcome) ==
  IF ~w.stt.is_configured
  THEN stt_put_error(w, "STT Error: Not starting, service not configured.")
  ELSE IF outcome # "ok" THEN w
  ELSE IF ~stt_initialize_recognizer_ok(w) THEN stt_initialize_recognizer(w)
  ELSE LET w1 == stt_initialize_recognizer(w)
           w2 == [w1 EXCEPT !.stt.active = TRUE]
           w3 == stt_spawn_audio_thread(w2)
       IN [w3 EXCEPT !.be.current = TRUE, !.be.written = <<>>]

\* the thread that self.audio_processor_thread names, if it is alive
TrackedAlive(w) == \E i \in 1..Len(w.thr) : w.thr[i].tracked

RemoveAt(s, i) == SubSeq(s, 1, i - 1) \o SubSeq(s, i + 1, Len(s))

\* stop(); outcome "raises": stop_continuous_recognition_async raises or times out
\* stop() that reports an error whenever the backend call would fail, recognizer or not
stt_stop_reporting(w, outcome) ==
  LET w1 == [w EXCEPT !.stt.active = FALSE, !.thr = SelectSeq(@, LAMBDA t : ~t.tracked)]
      w2 == stt_put_error(w1, "STT Stop Error")
  IN [w2 EXCEPT !.stt.speech_recognizer = FALSE, !.be.current = FALSE,
                !.stt.push_stream = "none"]

stt_stop(w, outcome) ==
  LET w1 == [w EXCEPT !.stt.active = FALSE]
      \* join(timeout=1.0): the joined loop sees the cleared flag and ends;
      \* its finally closes the push stream
      w2 == IF TrackedAlive(w1)
            THEN stt_close_push_stream(
                   [w1 EXCEPT !.thr = SelectSeq(@, LAMBDA t : ~t.tracked)])
            ELSE w1
      w3 == IF w2.stt.speech_recognizer
            THEN LET e == IF outcome = "ok" THEN w2
                          ELSE stt_put_error(w2, "STT Stop Error")
                 IN [e EXCEPT !.stt.speech_recognizer = FALSE,
                              !.be.current = FALSE]
            ELSE w2
  IN [w3 EXCEPT !.stt.push_stream = "none"]

\* pause()
stt_pause(w) ==
  IF w.stt.is_configured /\ w.stt.active
  THEN [w EXCEPT !.stt.active = FALSE] ELSE w

\* resume()
stt_resume(w) ==
  IF w.stt.is_configured /\ w.stt.speech_recognizer /\ w.stt.push_stream # "none"
  THEN [w EXCEPT !.stt.active = TRUE]
  ELSE IF w.stt.is_configured
       THEN stt_put_error(w, "STT Service: Cannot resume, not configured or recognizer not ready.")
       ELSE w

\* one pass of the loop of _audio_processor_thread_target up to the write:
\* the flag is tested, a chunk is taken from the queue (an empty queue times out
\* and the loop goes round), the sentinel ends the loop
stt_audio_thread_get(w, i) ==
  IF ~w.stt.active
  THEN stt_close_push_stream([w EXCEPT !.thr = RemoveAt(@, i)])
  ELSE IF w.aq = <<>> THEN w
  ELSE IF Head(w.aq) = Sentinel
       THEN stt_close_push_stream(
              [w EXCEPT !.aq = Tail(@), !.stt.active = FALSE, !.thr = RemoveAt(@, i)])
       ELSE [w EXCEPT !.aq = Tail(@), !.thr[i].pc = "got", !.thr[i].chunk = Head(w.aq)]

\* the rest of the pass: the chunk is written while the stream exists and the
\* flag is set; a write to a closed stream raises ("raises") or is dropped ("ok")
stt_audio_thread_write(w, i, outcome) ==
  IF w.stt.push_stream # "none" /\ w.stt.active
  THEN IF w.stt.push_stream = "open"
       THEN [w EXCEPT !.be.written = Append(@, w.thr[i].chunk),
                      !.thr[i].pc = "loop", !.thr[i].chunk = Sentinel]
       ELSE IF outcome = "ok"
            THEN [w EXCEPT !.thr[i].pc = "loop", !.thr[i].chunk = Sentinel]
            ELSE stt_close_push_stream(
                   stt_put_error([w EXCEPT !.stt.active = FALSE, !.thr = RemoveAt(@, i)],
                                 "STT Audio processing error"))
  ELSE stt_close_push_stream([w EXCEPT !.thr = RemoveAt(@, i)])

\* _recognizing_handler
stt_recognizing_handler(w, text) ==
  [w EXCEPT !.rq = Append(@, [type |-> "intermediate", text |-> text])]

\* _recognized_handler; reason is RecognizedSpeech or NoMatch
stt_recognized_handler(w, reason, text) ==
  IF reason = "RecognizedSpeech"
  THEN [w EXCEPT !.rq = Append(@, [type |-> "final", text |-> text])]
  ELSE [w EXCEPT !.rq = Append(@, [type |-> "no_match", text |-> <<>>])]

\* _session_stopped_handler
stt_session_stopped_handler(w) ==
  stt_close_push_stream([w EXCEPT !.stt.active = FALSE])

\* _canceled_handler
\* a _canceled_handler that only reports the cancellation
stt_canceled_handler_reporting(w) == stt_put_error(w, "STT Cancellation")

stt_canceled_handler(w) ==
  stt_close_push_stream(
    stt_put_error([w EXCEPT !.stt.active = FALSE], "STT Cancellation"))

(* ----------------------------- WakeWordDetector ------------------------ *)
wwd_put_error(w, message) ==
  [w EXCEPT !.wq = Append(@, [type |-> "error", message |-> message])]

\* "for conn in self._event_connections: conn.disconnect()"
wwd_disconnect(w) == [w EXCEPT !.wwd.connected = FALSE]

\* a recognized handler that queues the event and keeps recognizing
wwd_recognized_handler_rearmed(w) ==
  [w EXCEPT !.wq = Append(@, [type |-> "WAKE_WORD_DETECTED", message |-> "Hi pod"])]

\* _wwd_recognized_handler up to its last statement: the recognition is
\* stopped, is_detecting cleared, the handlers disconnected
wwd_recognized_handler_entered(w) ==
  wwd_disconnect([w EXCEPT !.wwd.listening = FALSE, !.wwd.is_detecting = FALSE])

\* the last statement of _wwd_recognized_handler: detection_queue.put
wwd_recognized_handler_put(w) ==
  [w EXCEPT !.wq = Append(@, [type |-> "WAKE_WORD_DETECTED", message |-> "Hi pod"])]

\* _wwd_recognized_handler, reason RecognizedKeyword
wwd_recognized_handler(w) ==
  wwd_recognized_handler_put(wwd_recognized_handler_entered(w))

\* _wwd_canceled_handler
wwd_canceled_handler(w) ==
  wwd_disconnect(
    [wwd_put_error(w, "WWD CANCELED") EXCEPT !.wwd.is_detecting = FALSE,
                                             !.wwd.listening = FALSE])

\* _start_single_recognition_wwd; outcome "raises": start_keyword_recognition_async raises
wwd_start_single_recognition(w, outcome) ==
  IF ~w.wwd.keyword_recognizer
  THEN wwd_put_error(w, "WWD: Recognizer or model not loaded. Cannot start recognition.")
  ELSE IF outcome = "ok"
       THEN [w EXCEPT !.wwd.connected = TRUE, !.wwd.listening = TRUE]
       ELSE [wwd_put_error(w, "WWD Start Reco Error") EXCEPT !.wwd.connected = TRUE,
                                                           !.wwd.is_detecting = FALSE]

\* start_detection
wwd_start_detection(w, outcome) ==
  IF ~w.wwd.keyword_recognizer
  THEN wwd_put_error(w, "WWD: Not initialized (recognizer/model). Cannot start.")
  ELSE IF w.wwd.is_detecting THEN w
  ELSE wwd_start_single_recognition([w EXCEPT !.wwd.is_detecting = TRUE], outcome)

\* stop_detection; outcome "raises": stop_recognition_async raises or times out
\* stop_detection without the try/finally: a failing backend call leaves the
\* handlers connected
wwd_stop_detection_raising(w, outcome) ==
  IF ~w.wwd.keyword_recognizer THEN [w EXCEPT !.wwd.is_detecting = FALSE]
  ELSE LET w1 == [w EXCEPT !.wwd.is_detecting = FALSE]
       IN IF w.wwd.is_detecting /\ outcome # "ok" THEN w1
          ELSE wwd_disconnect([w1 EXCEPT !.wwd.listening = FALSE])

wwd_stop_detection(w, outcome) ==
  IF ~w.wwd.keyword_recognizer THEN [w EXCEPT !.wwd.is_detecting = FALSE]
  ELSE LET was_detecting == w.wwd.is_detecting
           w1 == [w EXCEPT !.wwd.is_detecting = FALSE]
           w2 == IF was_detecting /\ outcome = "ok"
                 THEN [w1 EXCEPT !.wwd.listening = FALSE] ELSE w1
       IN wwd_disconnect(w2)

\* listen_for_single_question_async: the text it returns
wwd_listen_for_single_question(w, outcome) ==
  IF ~w.wwd.is_configured THEN QuestionNotConfigured
  ELSE CASE outcome = "RecognizedSpeech" -> QuestionRecognized
         [] outcome = "NoMatch" -> QuestionNoMatch
         [] outcome = "Canceled" -> QuestionCanceled
         [] OTHER -> QuestionException  \* get(timeout=10) raises

(* --------------------------- LanguageModelService ---------------------- *)
LlmAnswer == <<"the", WS, "answer">>
LlmApiError == <<"AI", WS, "Error:", WS, "server", WS, "error", WS, "(Code:", WS, "500)">>
LlmEmpty == <<"AI", WS, "response", WS, "empty.">>

\* get_response: the string it returns
llm_get_response(w, outcome) ==
  IF ~w.llm.is_configured
  THEN <<"Error:", WS, "LLM", WS, "Service", WS, "not", WS, "configured.">>
  ELSE CASE outcome = "ok" -> LlmAnswer
         [] outcome = "empty" -> LlmEmpty
         [] OTHER -> LlmApiError

(* ---------------------------- PodcastAssistantApp ---------------------- *)
\* snippet_max_length
SnippetMaxLength == 2000

\* s[:n] in place of s[-n:]
suffix_head(s, n) == IF Len(s) > n THEN SubSeq(s, 1, n) ELSE s

\* s[-n:]
suffix(s, n) == IF Len(s) > n THEN SubSeq(s, Len(s) - n + 1, Len(s)) ELSE s

\* _on_question_change
on_question_change(w) ==
  LET question_text == strip(w.ui.question_entry)
      has_text == question_text # <<>> /\ question_text # Placeholder
      is_processing_llm == w.ui.ask_ai_button_text # "Ask AI"
  IN IF w.llm.is_configured
     THEN [w EXCEPT !.ui.ask_ai_button =
                      has_text /\ ~is_processing_llm /\ ~w.app.is_listening_for_question]
     ELSE [w EXCEPT !.ui.ask_ai_button = FALSE]

\* _update_initial_status_and_button_states: the button states it sets
update_initial_status_and_button_states(w) ==
  LET w1 == IF ~w.stt.is_configured
            THEN [w EXCEPT !.ui.start_listening_button = FALSE]
            ELSE IF ~w.ah.is_recording
                 THEN [w EXCEPT !.ui.start_listening_button = TRUE]
                 ELSE w
  IN on_question_change(w1)

\* the failure branches of _recording_target
recording_failed(w) ==
  [w EXCEPT !.ui.start_listening_button = TRUE, !.ui.stop_listening_button = FALSE]

\* handle_start_listening
handle_start_listening(w, wwd_outcome, stt_outcome) ==
  IF ~w.stt.is_configured THEN w
  ELSE LET w1 == IF w.wwd.is_detecting THEN wwd_stop_detection(w, wwd_outcome) ELSE w
           w2 == [w1 EXCEPT !.ui.start_listening_button = FALSE,
                            !.ui.stop_listening_button = TRUE,
                            !.app.full_transcription = <<>>,
                            !.aq = <<>>,
                            !.rec = Append(@, "spawned")]
       IN stt_start(w2, stt_outcome)

\* handle_stop_listening up to the return of its first call
handle_stop_listening_first(w, ah_outcome) == ah_stop_recording(w, ah_outcome)

handle_stop_listening(w, ah_outcome, stt_outcome, wwd_outcome) ==
  LET w1 == handle_stop_listening_first(w, ah_outcome)
      w2 == stt_stop(w1, stt_outcome)
      w3 == [w2 EXCEPT !.ui.start_listening_button = TRUE,
                       !.ui.stop_listening_button = FALSE]
  IN IF w3.wwd.is_configured /\ ~w3.wwd.is_detecting
     THEN wwd_start_detection(w3, wwd_outcome)
     ELSE w3

\* handle_ask_ai without the test of the question text
handle_ask_ai_unchecked(w, has_override, context_override) ==
  IF ~w.llm.is_configured THEN w
  ELSE [w EXCEPT !.ui.ask_ai_button = FALSE,
                 !.ui.ask_ai_button_text = "Asking...",
                 !.lt = Append(@, [question |-> strip(w.ui.question_entry),
                                   context |-> IF has_override THEN context_override
                                               ELSE w.app.full_transcription])]

\* handle_ask_ai(context_override); has_override is "context_override is not None"
handle_ask_ai(w, has_override, context_override) ==
  LET user_question == strip(w.ui.question_entry)
      whole == IF has_override THEN context_override ELSE w.app.full_transcription
      transcript_context ==
        IF Len(whole) > SnippetMaxLength /\ ~w.app.is_listening_for_question
        THEN suffix(whole, SnippetMaxLength) ELSE whole
  IN IF ~w.llm.is_configured
     THEN [w EXCEPT !.ui.messagebox = "Azure OpenAI Configuration"]
     ELSE IF user_question = <<>> \/ user_question = Placeholder
     THEN IF ~w.app.is_listening_for_question
          THEN [w EXCEPT !.ui.messagebox = "Input Needed"] ELSE w
     ELSE [w EXCEPT !.ui.ask_ai_button = FALSE,
                    !.ui.ask_ai_button_text = "Asking...",
                    !.ui.ai_answer_text_area = <<"AI", WS, "is", WS, "thinking...">>,
                    !.lt = Append(@, [question |-> user_question,
                                      context |-> transcript_context])]

\* a dispatch of the spoken question that reads the transcript of the moment
populate_question_and_ask_llm_live(w, question_text) ==
  LET w1 == on_question_change([w EXCEPT !.ui.question_entry = question_text])
  IN handle_ask_ai(w1, TRUE, w1.app.full_transcription)

\* _populate_question_and_ask_llm
populate_question_and_ask_llm(w, question_text) ==
  LET w1 == on_question_change([w EXCEPT !.ui.question_entry = question_text])
  IN handle_ask_ai(w1, TRUE, w1.app.context_for_spoken_question)

\* _resume_normal_listening
resume_normal_listening(w, wwd_outcome) ==
  LET w1 == [w EXCEPT !.app.is_listening_for_question = FALSE]
      w2 == IF w1.stt.is_configured
            THEN IF w1.ui.stop_listening_button \/ w1.ah.is_recording
                 THEN stt_resume(w1)
                 ELSE update_initial_status_and_button_states(w1)
            ELSE w1
      w3 == IF w2.wwd.is_configured /\ ~w2.wwd.is_detecting
            THEN wwd_start_detection(w2, wwd_outcome)
            ELSE w2
      w4 == on_question_change(w3)
  IN IF ~w4.ah.is_recording
        /\ ~(w4.wwd.is_configured /\ w4.wwd.is_detecting)
     THEN update_initial_status_and_button_states(w4)
     ELSE w4

\* the test of _capture_and_process_spoken_question on the captured text
question_heard(question_text) ==
  /\ question_text # <<>>
  /\ ~startswith(question_text, <<"Error:">>)
  /\ ~startswith(question_text, <<"Exception:">>)
  /\ strip(question_text) # <<>>

\* _capture_and_process_spoken_question: what the thread schedules with root.after
capture_and_process_spoken_question(w, outcome) ==
  LET question_text == wwd_listen_for_single_question(w, outcome)
      w1 == IF ~w.wwd.is_configured
            THEN wwd_put_error(w, "WWD: Not configured for question listening")
            ELSE w
  IN IF question_heard(question_text)
     THEN [w1 EXCEPT !.aft = Append(@, [fn |-> "_populate_question_and_ask_llm",
                                         arg |-> question_text])]
     ELSE [w1 EXCEPT !.aft = Append(@, [fn |-> "_resume_normal_listening",
                                         arg |-> <<>>])]

\* the WAKE_WORD_DETECTED branch without the test of is_listening_for_question
on_wake_word_detected_reentrant(w) ==
  LET w1 == [w EXCEPT !.app.is_listening_for_question = TRUE,
                      !.ui.question_entry = <<>>]
      w2 == on_question_change(w1)
      w3 == [w2 EXCEPT !.app.context_for_spoken_question = w2.app.full_transcription]
      w4 == IF w3.ah.is_recording THEN stt_pause(w3) ELSE w3
  IN [w4 EXCEPT !.cap = @ + 1]

\* the WAKE_WORD_DETECTED branch of _check_all_queues_and_update_ui
on_wake_word_detected(w) ==
  IF w.app.is_listening_for_question THEN w
  ELSE LET w1 == [w EXCEPT !.app.is_listening_for_question = TRUE,
                           !.ui.question_entry = <<>>]
           w2 == on_question_change(w1)
           w3 == [w2 EXCEPT !.app.context_for_spoken_question = w2.app.full_transcription]
           w4 == IF w3.ah.is_recording THEN stt_pause(w3) ELSE w3
       IN [w4 EXCEPT !.cap = @ + 1]

\* the "error" branch of the wake word queue
on_wake_word_error(w, wwd_outcome) ==
  IF ~w.app.is_listening_for_question /\ w.wwd.is_configured /\ ~w.wwd.is_detecting
  THEN wwd_start_detection(w, wwd_outcome)
  ELSE w

\* a drain of the results queue that appends the texts without the space
RECURSIVE check_stt_results_queue_unspaced(_)
check_stt_results_queue_unspaced(w) ==
  IF w.rq = <<>> THEN w
  ELSE LET result == Head(w.rq)
           w1 == [w EXCEPT !.rq = Tail(@)]
       IN check_stt_results_queue_unspaced(
            IF result.type = "final" /\ result.text # <<>>
            THEN [w1 EXCEPT !.app.full_transcription = @ \o result.text]
            ELSE w1)

\* a drain of the results queue that appends the text of every event
RECURSIVE check_stt_results_queue_eager(_)
check_stt_results_queue_eager(w) ==
  IF w.rq = <<>> THEN w
  ELSE LET result == Head(w.rq)
           w1 == [w EXCEPT !.rq = Tail(@)]
       IN check_stt_results_queue_eager(
            [w1 EXCEPT !.app.full_transcription = @ \o result.text \o <<WS>>])

\* "while not self.stt_service.stt_results_queue.empty()"
RECURSIVE check_stt_results_queue(_)
check_stt_results_queue(w) ==
  IF w.rq = <<>> THEN w
  ELSE LET result == Head(w.rq)
           w1 == [w EXCEPT !.rq = Tail(@)]
       IN check_stt_results_queue(
            IF result.type = "final" /\ result.text # <<>>
            THEN [w1 EXCEPT !.app.full_transcription = @ \o result.text \o <<WS>>]
            ELSE w1)

\* "while not self.stt_service.stt_errors_queue.empty()": the status line only
check_stt_errors_queue(w) == [w EXCEPT !.eq = <<>>]

\* "while not self.llm_results_queue.empty()"
RECURSIVE check_llm_results_queue(_)
check_llm_results_queue(w) ==
  IF w.lq = <<>> THEN w
  ELSE LET llm_response == Head(w.lq)
           w1 == [w EXCEPT !.lq = Tail(@),
                           !.ui.ai_answer_text_area = llm_response,
                           !.ui.ask_ai_button_text = "Ask AI"]
       IN check_llm_results_queue(
            IF ~w1.app.is_listening_for_question THEN on_question_change(w1) ELSE w1)

\* "while not self.wake_word_event_queue.empty()"; the first start_detection of
\* the pass has outcome wwd_outcome, a later one of the same pass succeeds
RECURSIVE check_wake_word_event_queue(_, _)
check_wake_word_event_queue(w, wwd_outcome) ==
  IF w.wq = <<>> THEN w
  ELSE LET event_data == Head(w.wq)
           w1 == [w EXCEPT !.wq = Tail(@)]
       IN IF event_data.type = "WAKE_WORD_DETECTED"
          THEN check_wake_word_event_queue(on_wake_word_detected(w1), wwd_outcome)
          ELSE check_wake_word_event_queue(
                 on_wake_word_error(w1, wwd_outcome),
                 IF ~w1.app.is_listening_for_question /\ w1.wwd.is_configured
                    /\ ~w1.wwd.is_detecting
                 THEN "ok" ELSE wwd_outcome)

\* _check_all_queues_and_update_ui
check_all_queues_and_update_ui(w, wwd_outcome) ==
  check_wake_word_event_queue(
    check_llm_results_queue(check_stt_errors_queue(check_stt_results_queue(w))),
    wwd_outcome)

(* --------------- state of podcast_assistant_app.py (modular) ----------- *)
VARIABLES
  recorder,               \* PodcastAssistantApp: is_recording, full_transcription, the buttons,
                          \* the question and answer texts, the last message box
  language_model,         \* its LanguageModelService: api_key, is_available
  mic,                    \* its AudioHandler and audio_handler.audio_queue
  speech_service,         \* its SpeechToTextService: client, recognizer, audio_queue, transcription_queue
  workers,                \* live threads: _process_audio, _audio_generator, _process_response,
                          \* _get_ai_response
  app_env                 \* frames, clicks and faults the run has used; what reached the
                          \* backend; the ApiKey of config.ini

appVars == <<recorder, language_model, mic, speech_service, workers, app_env>>

VARIABLES
  stream                  \* one call of get_streaming_response: the lines the backend sends,
                          \* the position of iter_lines, what was yielded, where the generator is

VARIABLES
  enumeration             \* one call of list_audio_devices: the devices sd.query_devices()
                          \* reports, what each of the two AudioHandler classes returned

VARIABLES
  test_run                \* one run of test_services: what the working directory holds, the
                          \* statement it is at, the services built so far, what it raised and printed

VARIABLES
  wake_callback           \* the wake listener driven call by call: where the keyword-recognized
                          \* callback is, the calls made, whether stop_detection was the last call

\* the calls that belong to neither application's run
callVars == <<stream, enumeration, test_run, wake_callback>>

vars == <<monoVars, appVars, callVars>>

(* ------------------- podcast_assistant.py: initial state --------------- *)
\* PodcastAssistantApp.__init__: the services are built from config.ini, wake
\* detection is started when the detector is configured, the buttons are set
InitWorld(stt_ok, llm_ok, wwd_cfg) ==
  LET w0 == [ah |-> [is_recording |-> FALSE, input_stream |-> FALSE,
                     format |-> FALSE, streams |-> 0],
             aq |-> <<>>,
             stt |-> [is_configured |-> stt_ok, active |-> FALSE,
                      speech_recognizer |-> FALSE, push_stream |-> "none",
                      stream_format |-> "none"],
             thr |-> <<>>,
             be |-> [current |-> FALSE, leaked |-> 0, written |-> <<>>],
             rq |-> <<>>,
             eq |-> IF stt_ok THEN <<>>
                    ELSE <<"STT Error: Azure Speech Key/Region not configured in config.ini.">>,
             wwd |-> [is_configured |-> wwd_cfg = "ok",
                      keyword_recognizer |-> wwd_cfg # "nomodel",
                      is_detecting |-> FALSE, connected |-> FALSE, listening |-> FALSE],
             wq |-> CASE wwd_cfg = "ok" -> <<>>
                      [] wwd_cfg = "nokeys" ->
                           <<[type |-> "error", message |-> "WWD Error: Azure Speech Key/Region not configured"]>>
                      [] OTHER ->
                           <<[type |-> "error", message |-> "WWD Error: Model not found"]>>,
             llm |-> [is_configured |-> llm_ok],
             lt |-> <<>>,
             lq |-> <<>>,
             app |-> [full_transcription |-> <<>>,
                      context_for_spoken_question |-> <<>>,
                      is_listening_for_question |-> FALSE],
             ui |-> [start_listening_button |-> TRUE, stop_listening_button |-> FALSE,
                     ask_ai_button |-> TRUE, ask_ai_button_text |-> "Ask AI",
                     question_entry |-> Placeholder,
                     ai_answer_text_area |-> <<>>,
                     key_down |-> FALSE, messagebox |-> "none"],
             rec |-> <<>>,
             cap |-> 0,
             aft |-> <<>>,
             env |-> [frames |-> 0, starts |-> 0, stt_events |-> 0,
                      wake_events |-> 0, asks |-> 0, faults |-> 0,
                      failed |-> <<>>]]
      w1 == IF w0.wwd.is_configured THEN wwd_start_detection(w0, "ok") ELSE w0
  IN update_initial_status_and_button_states(w1)

Install(w) ==
  /\ audio_handler = w.ah
  /\ audio_queue = w.aq
  /\ stt_service = w.stt
  /\ audio_threads = w.thr
  /\ stt_backend = w.be
  /\ stt_results_queue = w.rq
  /\ stt_errors_queue = w.eq
  /\ wake_word_detector = w.wwd
  /\ wake_word_event_queue = w.wq
  /\ llm_service = w.llm
  /\ llm_threads = w.lt
  /\ llm_results_queue = w.lq
  /\ app = w.app
  /\ ui = w.ui
  /\ recording_threads = w.rec
  /\ capture_threads = w.cap
  /\ after_queue = w.aft
  /\ env = w.env

WwdConfigs == {"ok", "nokeys", "nomodel"}

InitMono ==
  \E stt_ok \in BOOLEAN, llm_ok \in BOOLEAN, wwd_cfg \in WwdConfigs :
    Install(InitWorld(stt_ok, llm_ok, wwd_cfg))

(* ---------------------- podcast_assistant.py: actions ------------------ *)
\* the outcomes of a vendor call that is made only when `called`
Calls(w, called, bad) == IF called THEN Outcomes(w, bad) ELSE {"ok"}

NFaults(outcomes) == Cardinality({i \in 1..Len(outcomes) : outcomes[i] # "ok"})

\* a step to world w1 that used the outcomes given
Step(w1, outcomes) ==
  /\ env.faults + NFaults(outcomes) <= MaxFaults
  /\ Inputs(w1.env) + NFaults(outcomes) <= MaxInputs
  /\ Commit([w1 EXCEPT !.env.faults = @ + NFaults(outcomes)])
  /\ UNCHANGED <<appVars, callVars>>

\* the device stream calls _audio_callback
AudioCallback ==
  /\ audio_handler.streams > 0
  /\ env.frames < MaxFrames
  /\ Step(ah_audio_callback([World EXCEPT !.env.frames = @ + 1], env.frames + 1), <<>>)

\* click on "Start Listening"
UserStartsListening ==
  /\ ui.start_listening_button
  /\ env.starts < MaxStarts
  /\ \E wwd_outcome \in Calls(World, wake_word_detector.is_detecting
                                      /\ wake_word_detector.keyword_recognizer, {"raises"}),
        stt_outcome \in Calls(World, stt_service.is_configured, {"raises"}) :
       Step(handle_start_listening([World EXCEPT !.env.starts = @ + 1],
                                   wwd_outcome, stt_outcome),
            <<wwd_outcome, stt_outcome>>)

\* click on "Stop Listening"
UserStopsListening ==
  /\ ui.stop_listening_button
  /\ \E ah_outcome \in Calls(World, audio_handler.is_recording /\ audio_handler.input_stream,
                             {"stop_raises", "close_raises"}),
        stt_outcome \in Calls(World, stt_service.speech_recognizer, {"raises"}),
        wwd_outcome \in Calls(World, wake_word_detector.is_configured
                                      /\ ~wake_word_detector.is_detecting, {"raises"}) :
       Step(handle_stop_listening(World, ah_outcome, stt_outcome, wwd_outcome),
            <<ah_outcome, stt_outcome, wwd_outcome>>)

\* _recording_target, up to the device query of start_recording
RecordingThreadQuery ==
  \E i \in 1..Len(recording_threads) :
    /\ recording_threads[i] = "spawned"
    /\ \E outcome \in Calls(World, ~audio_handler.is_recording, {"raises"}) :
         LET w1 == ah_start_query(World, outcome)
         IN Step(IF World.ah.is_recording \/ outcome # "ok"
                 THEN recording_failed([w1 EXCEPT !.rec = RemoveAt(@, i)])
                 ELSE [w1 EXCEPT !.rec[i] = "opening"],
                 <<outcome>>)

\* _recording_target, the rest of start_recording
RecordingThreadOpen ==
  \E i \in 1..Len(recording_threads) :
    /\ recording_threads[i] = "opening"
    /\ \E outcome \in Outcomes(World, {"open_raises", "start_raises"}) :
         LET w1 == [ah_start_open(World, outcome) EXCEPT !.rec = RemoveAt(@, i)]
         IN Step(IF outcome = "ok" THEN w1 ELSE recording_failed(w1), <<outcome>>)

\* one pass of a forwarding loop, up to the write
AudioThreadGet ==
  \E i \in 1..Len(audio_threads) :
    /\ audio_threads[i].pc = "loop"
    /\ ~stt_service.active \/ audio_queue # <<>>
    /\ Step(stt_audio_thread_get(World, i), <<>>)

\* the write of the pass
AudioThreadWrite ==
  \E i \in 1..Len(audio_threads) :
    /\ audio_threads[i].pc = "got"
    /\ \E outcome \in Calls(World, stt_service.push_stream = "closed" /\ stt_service.active,
                            {"raises"}) :
         Step(stt_audio_thread_write(World, i, outcome), <<outcome>>)

\* the words the speech backend recognizes, one per event
Words == <<"one", "two", "three", "four", "five", "six">>

RecognizerLive == stt_backend.current \/ stt_backend.leaked > 0

SttEvent(w1) ==
  /\ RecognizerLive
  /\ env.stt_events < MaxSttEvents
  /\ env.stt_events < Len(Words)
  /\ Step([w1 EXCEPT !.env.stt_events = @ + 1], <<>>)

\* the recognizer that ends is the current one, else one left running by an earlier start
HaltRecognizer(w) ==
  IF w.be.current THEN [w EXCEPT !.be.current = FALSE]
  ELSE [w EXCEPT !.be.leaked = IF @ > 0 THEN @ - 1 ELSE 0]

\* the recognizer raises "recognizing"
SttRecognizing ==
  SttEvent(stt_recognizing_handler(World, <<Words[env.stt_events + 1]>>))

\* an utterance of LongLen characters
LongText(word) == [i \in 1..LongLen |-> word]

\* the recognizer raises "recognized" with speech (its text may be empty)
SttRecognized ==
  \E text \in {<<>>, <<Words[env.stt_events + 1]>>, LongText(Words[env.stt_events + 1])} :
    SttEvent(stt_recognized_handler(World, "RecognizedSpeech", text))

\* the recognizer raises "recognized" with no match
SttNoMatch ==
  SttEvent(stt_recognized_handler(World, "NoMatch", <<>>))

\* the recognizer raises "session_stopped"
SttSessionStopped ==
  SttEvent(HaltRecognizer(stt_session_stopped_handler(World)))

\* the recognizer raises "canceled"
SttCanceled ==
  SttEvent(HaltRecognizer(stt_canceled_handler(World)))

WakeEvent(w1) ==
  /\ wake_word_detector.listening
  /\ wake_word_detector.connected
  /\ env.wake_events < MaxWakeEvents
  /\ Step([w1 EXCEPT !.env.wake_events = @ + 1], <<>>)

\* the keyword recognizer raises "recognized"
WakeRecognized == WakeEvent(wwd_recognized_handler(World))

\* the keyword recognizer raises "canceled"
WakeCanceled == WakeEvent(wwd_canceled_handler(World))

\* the capture thread: listen_for_single_question_async returns
CaptureThreadListen ==
  /\ capture_threads > 0
  /\ \E outcome \in {"RecognizedSpeech", "NoMatch", "Canceled"}
                    \cup (IF MayFail(World) THEN {"Exception"} ELSE {}) :
       Step(capture_and_process_spoken_question([World EXCEPT !.cap = @ - 1], outcome),
            IF outcome = "Exception" THEN <<outcome>> ELSE <<>>)

\* Tk runs the next callback that the capture thread scheduled
AfterCallback ==
  /\ after_queue # <<>>
  /\ LET cb == Head(after_queue)
         w1 == [World EXCEPT !.aft = Tail(@)]
     IN IF cb.fn = "_populate_question_and_ask_llm"
        THEN Step(populate_question_and_ask_llm(w1, cb.arg), <<>>)
        ELSE \E wwd_outcome \in Calls(World, wake_word_detector.is_configured
                                              /\ ~wake_word_detector.is_detecting,
                                      {"raises"}) :
               Step(resume_normal_listening(w1, wwd_outcome), <<wwd_outcome>>)

\* _ask_llm_thread_target: get_response returns and the answer is queued
LlmThreadDone ==
  \E i \in 1..Len(llm_threads) :
    \E outcome \in Outcomes(World, {"api_error"}) :
      Step([World EXCEPT !.lt = RemoveAt(@, i),
                         !.lq = Append(@, llm_get_response(World, outcome)),
                         !.env.failed = IF outcome = "ok" THEN @
                                        ELSE Append(@, llm_threads[i].question)],
           <<outcome>>)

\* the user presses a key in the question entry: the text changes, and
\* _on_question_change runs only when the key is released
UserTypesQuestion ==
  \E text \in TypedQuestions :
    /\ ui.question_entry # text
    /\ env.asks < MaxAsks
    /\ Step([World EXCEPT !.ui.question_entry = text, !.ui.key_down = TRUE,
                          !.env.asks = @ + 1], <<>>)

\* the key is released: <KeyRelease> runs _on_question_change
KeyRelease ==
  /\ ui.key_down
  /\ Step(on_question_change([World EXCEPT !.ui.key_down = FALSE]), <<>>)

\* click on "Ask AI"
UserAsksAi ==
  /\ ui.ask_ai_button
  /\ Step(handle_ask_ai(World, FALSE, <<>>), <<>>)

\* the 100 ms poll: _check_all_queues_and_update_ui
CheckAllQueues ==
  /\ stt_results_queue # <<>> \/ stt_errors_queue # <<>>
       \/ llm_results_queue # <<>> \/ wake_word_event_queue # <<>>
  /\ \E wwd_outcome \in Calls(World, \E k \in 1..Len(wake_word_event_queue) :
                                       wake_word_event_queue[k].type = "error",
                              {"raises"}) :
       Step(check_all_queues_and_update_ui(World, wwd_outcome),
            <<wwd_outcome>>)

Next ==
  \/ AudioCallback
  \/ UserStartsListening
  \/ UserStopsListening
  \/ RecordingThreadQuery
  \/ RecordingThreadOpen
  \/ AudioThreadGet
  \/ AudioThreadWrite
  \/ SttRecognizing
  \/ SttRecognized
  \/ SttNoMatch
  \/ SttSessionStopped
  \/ SttCanceled
  \/ WakeRecognized
  \/ WakeCanceled
  \/ CaptureThreadListen
  \/ AfterCallback
  \/ LlmThreadDone
  \/ UserTypesQuestion
  \/ KeyRelease
  \/ UserAsksAi
  \/ CheckAllQueues

(* ------------- podcast_assistant_app.py: operations (modular) ---------- *)
\* audio_handler.py holds the same AudioHandler: ah_start_query, ah_start_open,
\* ah_stop_recording and ah_audio_callback act on the fields ah and aq
AppWorld == [ah |-> mic.ah, aq |-> mic.aq, rec |-> recorder, lm |-> language_model,
             sp |-> speech_service, wk |-> workers, env |-> app_env]

AppCommit(w) ==
  /\ mic' = [ah |-> w.ah, aq |-> w.aq]
  /\ recorder' = w.rec
  /\ language_model' = w.lm
  /\ speech_service' = w.sp
  /\ workers' = w.wk
  /\ app_env' = w.env

\* SpeechToTextService.start_recognition; TRUE when it returns True
speech_start_recognition_ok(w, outcome) == w.sp.client /\ outcome = "ok"

\* SpeechToTextService.start_recognition; outcome "raises": streaming_recognize raises
speech_start_recognition(w, outcome) ==
  IF ~w.sp.client THEN w
  ELSE IF outcome = "ok"
       THEN [w EXCEPT !.wk.generators = @ + 1, !.wk.processing = @ + 1]
       ELSE w

\* SpeechToTextService.stop_recognition: it returns early unless a recognizer is
\* set and is_recording holds; nothing is put on self.audio_queue
speech_stop_recognition(w) ==
  IF ~w.sp.recognizer \/ ~w.sp.is_recording THEN w
  ELSE w

\* SpeechToTextService.push_audio
speech_push_audio(w, audio_data) == [w EXCEPT !.sp.audio_queue = Append(@, audio_data)]

\* one pass of SpeechToTextService._audio_generator with a chunk on the queue
speech_audio_generator(w) ==
  IF Head(w.sp.audio_queue) = Sentinel
  THEN [w EXCEPT !.sp.audio_queue = Tail(@), !.wk.generators = @ - 1]
  ELSE [w EXCEPT !.sp.audio_queue = Tail(@),
                 !.env.sent = Append(@, Head(w.sp.audio_queue))]

\* SpeechToTextService._process_response: one response of the stream
speech_process_response(w, kind, transcript) ==
  [w EXCEPT !.sp.transcription_queue = Append(@, [type |-> kind, text |-> transcript])]

\* SpeechToTextService._process_response: the stream raises; the thread ends and
\* the request generator is no longer pulled
speech_process_response_error(w) ==
  [w EXCEPT !.sp.transcription_queue =
               Append(@, [type |-> "error", text |-> <<"Error", WS, "processing", WS, "speech", WS, "response">>]),
            !.sp.is_recording = FALSE,
            !.wk.processing = @ - 1,
            !.wk.generators = IF @ > 0 THEN @ - 1 ELSE 0]

\* PodcastAssistantApp._stop_recording
app_stop_recording(w, mic_outcome) ==
  LET w1 == [w EXCEPT !.rec.is_recording = FALSE]
      w2 == ah_stop_recording(w1, mic_outcome)
      w3 == speech_stop_recognition(w2)
  IN [w3 EXCEPT !.rec.record_button_text = "Start Recording"]

\* PodcastAssistantApp._start_recording
app_start_recording(w, query_outcome, open_outcome, speech_outcome, mic_outcome) ==
  LET started == ~w.ah.is_recording /\ query_outcome = "ok" /\ open_outcome = "ok"
      w1 == ah_start_query(w, query_outcome)
      w2 == IF ~w.ah.is_recording /\ query_outcome = "ok"
            THEN ah_start_open(w1, open_outcome) ELSE w1
  IN IF ~started THEN w2
     ELSE LET w3 == [w2 EXCEPT !.rec.is_recording = TRUE,
                               !.rec.record_button_text = "Stop Recording",
                               !.wk.process_audio = @ + 1]
              w4 == speech_start_recognition(w3, speech_outcome)
          IN IF speech_start_recognition_ok(w3, speech_outcome) THEN w4
             ELSE app_stop_recording(w4, mic_outcome)

\* one pass of PodcastAssistantApp._process_audio
app_process_audio(w) ==
  IF ~w.rec.is_recording THEN [w EXCEPT !.wk.process_audio = @ - 1]
  ELSE IF w.aq = <<>> THEN w
  ELSE IF Head(w.aq) = Sentinel
       THEN [w EXCEPT !.aq = Tail(@), !.wk.process_audio = @ - 1]
       ELSE speech_push_audio([w EXCEPT !.aq = Tail(@)], Head(w.aq))

\* PodcastAssistantApp._ask_ai
app_ask_ai(w) ==
  LET question == strip(w.rec.question_text)
      context == suffix(w.rec.full_transcription, SnippetMaxLength)
  IN IF question = <<>> \/ question = Placeholder
     THEN [w EXCEPT !.rec.messagebox = "Input Needed"]
     ELSE LET w1 == [w EXCEPT !.rec.answer_text = <<"Thinking...">>]
          IN IF context = <<>>
             THEN [w1 EXCEPT !.rec.messagebox = "Context Needed"]
             ELSE [w1 EXCEPT !.wk.ai = Append(@, [question |-> question,
                                                  context |-> context])]

(* ---------------- language_model_service.py: configure ----------------- *)
\* self.api_key = None
NoKey == "None"

\* the ApiKey values of config.ini: empty, the value test_services.py stands in
\* for a real key, a real key
MissingKey == ""
PlaceholderKey == "your_deepseek_api_key"
ApiKeys == {MissingKey, PlaceholderKey, "sk-2f9c"}

\* LanguageModelService.__init__
lm_init == [api_key |-> NoKey, is_available |-> FALSE]

\* LanguageModelService.configure; TRUE when it returns True
lm_configure_ok(api_key) == api_key # MissingKey

\* LanguageModelService.configure
lm_configure(lm, api_key) ==
  IF api_key = MissingKey THEN [lm EXCEPT !.is_available = FALSE]
  ELSE [lm EXCEPT !.api_key = api_key, !.is_available = TRUE]

(* ---------------- podcast_assistant_app.py: initial state -------------- *)
\* PodcastAssistantApp.__init__; the record button is disabled when
\* speech_service.configure fails, the ask button when language_model.configure
\* fails
InitAppWorld(speech_ok, api_key) ==
  [ah |-> [is_recording |-> FALSE, input_stream |-> FALSE, format |-> FALSE, streams |-> 0],
   aq |-> <<>>,
   rec |-> [is_recording |-> FALSE, record_button |-> speech_ok,
            record_button_text |-> "Start Recording",
            ask_button |-> lm_configure_ok(api_key),
            question_text |-> Placeholder, answer_text |-> <<>>,
            full_transcription |-> <<>>, messagebox |-> "none"],
   lm |-> lm_configure(lm_init, api_key),
   sp |-> [client |-> speech_ok, recognizer |-> FALSE, is_recording |-> FALSE,
           audio_queue |-> <<>>, transcription_queue |-> <<>>],
   wk |-> [process_audio |-> 0, generators |-> 0, processing |-> 0, ai |-> <<>>],
   env |-> [frames |-> 0, starts |-> 0, stt_events |-> 0, wake_events |-> 0,
            asks |-> 0, faults |-> 0, sent |-> <<>>, api_key |-> api_key]]

AppInstall(w) ==
  /\ mic = [ah |-> w.ah, aq |-> w.aq]
  /\ recorder = w.rec
  /\ language_model = w.lm
  /\ speech_service = w.sp
  /\ workers = w.wk
  /\ app_env = w.env

InitApp ==
  \E speech_ok \in BOOLEAN, api_key \in ApiKeys :
    AppInstall(InitAppWorld(speech_ok, api_key))

(* ------------------ podcast_assistant_app.py: actions ------------------ *)
AppStep(w1, outcomes) ==
  /\ app_env.faults + NFaults(outcomes) <= MaxFaults
  /\ Inputs(w1.env) + NFaults(outcomes) <= MaxInputs
  /\ AppCommit([w1 EXCEPT !.env.faults = @ + NFaults(outcomes)])
  /\ UNCHANGED <<monoVars, callVars>>

AppOutcomes(called, bad) ==
  IF called /\ app_env.faults < MaxFaults /\ Inputs(app_env) < MaxInputs
  THEN {"ok"} \cup bad ELSE {"ok"}

\* click on the record button while not recording: _toggle_recording -> _start_recording
AppStartRecording ==
  /\ recorder.record_button
  /\ ~recorder.is_recording
  /\ app_env.starts < MaxStarts
  /\ \E query_outcome \in AppOutcomes(~mic.ah.is_recording, {"raises"}),
        open_outcome \in AppOutcomes(~mic.ah.is_recording, {"open_raises", "start_raises"}),
        speech_outcome \in AppOutcomes(~mic.ah.is_recording, {"raises"}) :
       /\ (query_outcome = "ok" \/ open_outcome = "ok")
       /\ ((query_outcome = "ok" /\ open_outcome = "ok") \/ speech_outcome = "ok")
       /\ AppStep(app_start_recording([AppWorld EXCEPT !.env.starts = @ + 1],
                                      query_outcome, open_outcome, speech_outcome, "ok"),
                  <<query_outcome, open_outcome, speech_outcome>>)

\* click on the record button while recording: _toggle_recording -> _stop_recording
AppStopRecording ==
  /\ recorder.record_button
  /\ recorder.is_recording
  /\ \E mic_outcome \in AppOutcomes(mic.ah.is_recording /\ mic.ah.input_stream,
                                    {"stop_raises", "close_raises"}) :
       AppStep(app_stop_recording(AppWorld, mic_outcome), <<mic_outcome>>)

\* the device stream calls _audio_callback
AppAudioCallback ==
  /\ mic.ah.streams > 0
  /\ app_env.frames < MaxFrames
  /\ AppStep(ah_audio_callback([AppWorld EXCEPT !.env.frames = @ + 1],
                               app_env.frames + 1), <<>>)

\* one pass of a _process_audio loop
AppProcessAudio ==
  /\ workers.process_audio > 0
  /\ ~recorder.is_recording \/ mic.aq # <<>>
  /\ AppStep(app_process_audio(AppWorld), <<>>)

\* the backend pulls the next request from an _audio_generator
AppAudioGenerator ==
  /\ workers.generators > 0
  /\ speech_service.audio_queue # <<>>
  /\ AppStep(speech_audio_generator(AppWorld), <<>>)

\* the backend answers: an interim or a final result
AppBackendResponse ==
  /\ workers.processing > 0
  /\ app_env.stt_events < MaxSttEvents
  /\ app_env.stt_events < Len(Words)
  /\ \E kind \in {"intermediate", "final"} :
       AppStep(speech_process_response([AppWorld EXCEPT !.env.stt_events = @ + 1],
                                       kind, <<Words[app_env.stt_events + 1]>>), <<>>)

\* the response stream raises
AppBackendError ==
  /\ workers.processing > 0
  /\ app_env.faults < MaxFaults
  /\ AppStep(speech_process_response_error(AppWorld), <<"raises">>)

\* the user edits the question text; no handler is bound to the widget
AppUserTypesQuestion ==
  \E text \in TypedQuestions :
    /\ recorder.question_text # text
    /\ app_env.asks < MaxAsks
    /\ AppStep([AppWorld EXCEPT !.rec.question_text = text, !.env.asks = @ + 1], <<>>)

\* click on "Ask AI": _ask_ai. Nothing assigns full_transcription after
\* __init__, so the click ends at one of the two message boxes
AppUserAsksAi ==
  /\ recorder.ask_button
  /\ AppStep(app_ask_ai(AppWorld), <<>>)

NextApp ==
  \/ AppStartRecording
  \/ AppStopRecording
  \/ AppAudioCallback
  \/ AppProcessAudio
  \/ AppAudioGenerator
  \/ AppBackendResponse
  \/ AppBackendError
  \/ AppUserTypesQuestion
  \/ AppUserAsksAi

(* ------------- language_model_service.py: streaming mode --------------- *)
\* the names the module's import statements bind
Imports == {"requests", "logging", "Optional", "Dict", "Generator"}

\* the lines response.iter_lines() can deliver: an empty keep-alive line, a
\* line that is not a data line, data lines with a JSON chunk that carries a
\* text fragment, an empty fragment or no delta, a data line that is not JSON,
\* and the end-of-stream marker
StreamLineKinds ==
  { [kind |-> "empty", content |-> ""],
    [kind |-> "other", content |-> ""],
    [kind |-> "delta", content |-> "Hel"],
    [kind |-> "delta", content |-> "lo"],
    [kind |-> "delta", content |-> ""],
    [kind |-> "nodelta", content |-> ""],
    [kind |-> "malformed", content |-> ""],
    [kind |-> "done", content |-> ""] }

\* the streams of at most MaxLines lines
StreamInputs == UNION {[1..n -> StreamLineKinds] : n \in 0..MaxLines}

StreamAtRest == [lines |-> <<>>, pos |-> 1, yielded |-> <<>>, pc |-> "idle"]

NameErrorJson == "Error: name 'json' is not defined"
HttpError == "Error: 500 Server Error"

\* the except clause of the generator: the error is yielded and the generator ends
stream_error(st, message) ==
  [st EXCEPT !.yielded = Append(@, message), !.pc = "done"]

\* get_streaming_response up to the for loop; outcome "raises": requests.post or
\* raise_for_status raises
stream_open(st, lm, outcome) ==
  IF ~lm.is_available \/ lm.api_key = NoKey
  THEN [st EXCEPT !.yielded = Append(@, "Service not available"), !.pc = "done"]
  ELSE IF outcome # "ok" THEN stream_error(st, HttpError)
  ELSE [st EXCEPT !.pc = "loop"]

\* one pass of "for line in response.iter_lines()"
stream_line(st) ==
  LET line == st.lines[st.pos]
      next == [st EXCEPT !.pos = @ + 1]
  IN CASE line.kind \in {"empty", "other"} -> next
       [] line.kind = "done" -> [next EXCEPT !.pc = "done"]
       [] OTHER ->
            \* json.loads(chunk), and "except json.JSONDecodeError", look up the name json
            IF "json" \notin Imports THEN stream_error(next, NameErrorJson)
            ELSE IF line.kind = "delta" /\ line.content # ""
                 THEN [next EXCEPT !.yielded = Append(@, line.content)]
                 ELSE next

\* the caller starts the generator
StreamOpen ==
  /\ stream.pc = "idle"
  /\ \E outcome \in {"ok", "raises"} :
       stream' = stream_open(stream, language_model, outcome)
  /\ UNCHANGED <<monoVars, appVars, enumeration, test_run, wake_callback>>

\* the caller pulls the generator and the backend has sent one more line
StreamLine ==
  /\ stream.pc = "loop"
  /\ stream.pos <= Len(stream.lines)
  /\ stream' = stream_line(stream)
  /\ UNCHANGED <<monoVars, appVars, enumeration, test_run, wake_callback>>

\* the backend closes the connection: iter_lines is exhausted
StreamExhausted ==
  /\ stream.pc = "loop"
  /\ stream.pos > Len(stream.lines)
  /\ stream' = [stream EXCEPT !.pc = "done"]
  /\ UNCHANGED <<monoVars, appVars, enumeration, test_run, wake_callback>>

NextStream ==
  \/ StreamOpen
  \/ StreamLine
  \/ StreamExhausted

(* ------------------- AudioHandler.list_audio_devices ------------------- *)
\* the devices sd.query_devices() can report: a name and max_input_channels
DeviceKinds ==
  [name : {"Microphone", "Stereo Mix (Realtek)", "Loopback Audio", "Speakers"},
   max_input_channels : {0, 2}]

DeviceLists == UNION {[1..n -> DeviceKinds] : n \in 0..MaxDevices}

\* "stereo mix" in device_name.lower() (audio_handler.py also accepts the
\* Chinese name of the device); every other name of DeviceKinds lacks it
is_stereo_mix(device_name) == device_name = "Stereo Mix (Realtek)"

\* the entries built by the loop: index i is the position in query_devices()
input_devices(devices) ==
  SelectSeq([i \in 1..Len(devices) |->
               [index |-> i - 1, name |-> devices[i].name,
                is_stereo_mix |-> is_stereo_mix(devices[i].name),
                channels |-> devices[i].max_input_channels]],
            LAMBDA d : d.channels > 0)

\* podcast_assistant.py, AudioHandler.list_audio_devices: the input devices in
\* the order of query_devices(); [] when query_devices raises
list_audio_devices(devices, outcome) ==
  IF outcome # "ok" THEN <<>> ELSE input_devices(devices)

\* audio_handler.py, AudioHandler.list_audio_devices: list.sort is stable, so
\* with the key "not is_stereo_mix" the stereo-mix entries come first and both
\* groups keep their order
ah_list_audio_devices(devices, outcome) ==
  IF outcome # "ok" THEN <<>>
  ELSE SelectSeq(input_devices(devices), LAMBDA d : d.is_stereo_mix)
         \o SelectSeq(input_devices(devices), LAMBDA d : ~d.is_stereo_mix)

\* device_combobox.current() before an entry is selected, and "no device passed"
NoSelection == -1

EnumerationOf(devices) ==
  [devices |-> devices, pc |-> "idle", single_file |-> <<>>, modular |-> <<>>,
   current |-> NoSelection, single_file_device |-> NoSelection,
   modular_device |-> NoSelection]

\* podcast_assistant.py, _recording_target: int(selected_device_name.split(':')[0])
\* of the entry's name "<index>: <device name> (In: <channels>)"
recording_target_device_index(entry) == entry.index

\* podcast_assistant_app.py, _start_recording: device_combobox.current(), the
\* position of the selected entry in the list
app_start_recording_device_index(current) == current

\* both classes enumerate the devices; outcome "raises": sd.query_devices raises
ListAudioDevices ==
  /\ enumeration.pc = "idle"
  /\ \E outcome \in {"ok", "raises"} :
       enumeration' =
         [enumeration EXCEPT
            !.pc = IF outcome = "ok" THEN "listed" ELSE "failed",
            !.single_file = list_audio_devices(enumeration.devices, outcome),
            !.modular = ah_list_audio_devices(enumeration.devices, outcome)]
  /\ UNCHANGED <<monoVars, appVars, stream, test_run, wake_callback>>

\* an entry of the device list is selected: the same position in both lists
SelectDevice ==
  /\ enumeration.pc = "listed"
  /\ \E position \in 0..(Len(enumeration.modular) - 1) :
       enumeration' = [enumeration EXCEPT !.pc = "selected", !.current = position]
  /\ UNCHANGED <<monoVars, appVars, stream, test_run, wake_callback>>

\* both applications start recording: the index each passes to start_recording
StartOnSelection ==
  /\ enumeration.pc = "selected"
  /\ enumeration' =
       [enumeration EXCEPT
          !.pc = "started",
          !.single_file_device =
             recording_target_device_index(enumeration.single_file[enumeration.current + 1]),
          !.modular_device = app_start_recording_device_index(enumeration.current)]
  /\ UNCHANGED <<monoVars, appVars, stream, test_run, wake_callback>>

NextDevices ==
  \/ ListAudioDevices
  \/ SelectDevice
  \/ StartOnSelection

(* --------------------- test_services.py: test_services ----------------- *)
\* what the working directory holds at "client_secret.json"
CredentialFiles == {"missing", "malformed", "valid"}

\* SpeechToTextService.configure (speech_to_text_service.py); TRUE when it returns
\* True: SpeechClient.from_service_account_file raises unless the file is a
\* service account key, and the exception is caught
speech_configure_ok(credentials) == credentials = "valid"

\* WakeWordDetector.configure (wake_word_detector.py): the model path is kept
\* when the file exists, else FileNotFoundError is raised and caught
detector_configure(model_exists) ==
  [model_path |-> IF model_exists THEN "Hi_pod.table" ELSE "None"]

\* the methods that class AudioHandler of audio_handler.py defines
AudioHandlerMethods ==
  {"__init__", "list_audio_devices", "_audio_callback", "start_recording",
   "stop_recording", "get_audio_format"}

TestRunOf(pc, credentials, api_key, model_exists) ==
  [pc |-> pc, credentials |-> credentials, api_key |-> api_key,
   model_exists |-> model_exists,
   stt |-> [built |-> FALSE, client |-> FALSE],
   lm |-> [built |-> FALSE, api_key |-> NoKey, is_available |-> FALSE],
   wwd |-> [built |-> FALSE, model_path |-> "None"],
   audio |-> [built |-> FALSE],
   raised |-> "none", printed |-> FALSE]

TestAtRest == TestRunOf("idle", "missing", MissingKey, FALSE)

\* one statement of test_services
TestStatement(at, after) ==
  /\ test_run.pc = at
  /\ test_run' = after
  /\ UNCHANGED <<monoVars, appVars, stream, enumeration, wake_callback>>

\* stt = SpeechToTextService(logger, audio_format)
TestSpeechService ==
  TestStatement("stt", [test_run EXCEPT !.pc = "stt.configure", !.stt.built = TRUE])

\* stt.configure("client_secret.json")
TestSpeechConfigure ==
  TestStatement("stt.configure",
    [test_run EXCEPT !.pc = "lm",
                     !.stt.client = speech_configure_ok(test_run.credentials)])

\* lm = LanguageModelService(logger)
TestLanguageModel ==
  TestStatement("lm", [test_run EXCEPT !.pc = "lm.configure",
                                       !.lm = [built |-> TRUE] @@ lm_init])

\* lm.configure(api_key)
TestLanguageModelConfigure ==
  TestStatement("lm.configure",
    [test_run EXCEPT !.pc = "wwd",
                     !.lm = [built |-> TRUE]
                              @@ lm_configure([api_key |-> test_run.lm.api_key,
                                               is_available |-> test_run.lm.is_available],
                                              test_run.api_key)])

\* wwd = WakeWordDetector(logger)
TestWakeWordDetector ==
  TestStatement("wwd", [test_run EXCEPT !.pc = "wwd.configure", !.wwd.built = TRUE])

\* wwd.configure("Hi_pod.table")
TestWakeWordConfigure ==
  TestStatement("wwd.configure",
    [test_run EXCEPT !.pc = "audio",
                     !.wwd = [built |-> TRUE] @@ detector_configure(test_run.model_exists)])

\* audio = AudioHandler(logger)
TestAudioHandler ==
  TestStatement("audio", [test_run EXCEPT !.pc = "audio.configure", !.audio.built = TRUE])

\* audio.configure(audio_format) and the print of the success message: the
\* attribute lookup raises AttributeError when the class has no such method
TestAudioConfigure ==
  TestStatement("audio.configure",
    IF "configure" \in AudioHandlerMethods
    THEN [test_run EXCEPT !.pc = "done", !.printed = TRUE]
    ELSE [test_run EXCEPT !.pc = "raised", !.raised = "AttributeError"])

NextTest ==
  \/ TestSpeechService
  \/ TestSpeechConfigure
  \/ TestLanguageModel
  \/ TestLanguageModelConfigure
  \/ TestWakeWordDetector
  \/ TestWakeWordConfigure
  \/ TestAudioHandler
  \/ TestAudioConfigure

(* ------------- WakeWordDetector: the callback statement by statement ----- *)
WakeCallbackAtRest == [pc |-> "idle", starts |-> 0, stops |-> 0, stopped |-> FALSE]

\* a step of the wake listener alone
WakeStep(w, callback) ==
  /\ Commit(w)
  /\ wake_callback' = callback
  /\ UNCHANGED <<appVars, stream, enumeration, test_run>>

\* a backend call of the wake listener fails only while the run has faults left
WakeOutcomes(called) ==
  IF called /\ env.faults < MaxFaults THEN {"ok", "raises"} ELSE {"ok"}

\* the UI thread calls start_detection()
DetectorStart ==
  /\ wake_callback.starts < MaxStarts
  /\ \E outcome \in WakeOutcomes(wake_word_detector.keyword_recognizer
                                   /\ ~wake_word_detector.is_detecting) :
       WakeStep(wwd_start_detection(
                  IF outcome = "ok" THEN World ELSE Fault(World), outcome),
                [wake_callback EXCEPT !.starts = @ + 1, !.stopped = FALSE])

\* the UI thread calls stop_detection()
DetectorStop ==
  /\ wake_callback.stops < MaxStarts
  /\ \E outcome \in WakeOutcomes(wake_word_detector.keyword_recognizer
                                   /\ wake_word_detector.is_detecting) :
       WakeStep(wwd_stop_detection(
                  IF outcome = "ok" THEN World ELSE Fault(World), outcome),
                [wake_callback EXCEPT !.stops = @ + 1, !.stopped = TRUE])

\* the SDK thread runs _wwd_recognized_handler up to its last statement
KeywordCallbackEnters ==
  /\ wake_callback.pc = "idle"
  /\ wake_word_detector.listening
  /\ wake_word_detector.connected
  /\ env.wake_events < MaxWakeEvents
  /\ WakeStep(wwd_recognized_handler_entered([World EXCEPT !.env.wake_events = @ + 1]),
              [wake_callback EXCEPT !.pc = "entered"])

\* the SDK thread runs the last statement of _wwd_recognized_handler
KeywordCallbackPuts ==
  /\ wake_callback.pc = "entered"
  /\ WakeStep(wwd_recognized_handler_put(World), [wake_callback EXCEPT !.pc = "idle"])

NextWake ==
  \/ DetectorStart
  \/ DetectorStop
  \/ KeywordCallbackEnters
  \/ KeywordCallbackPuts

(* ---------------------------- specifications --------------------------- *)
\* podcast_assistant.py, with the modular application at rest
Init ==
  /\ InitMono
  /\ AppInstall(InitAppWorld(TRUE, PlaceholderKey))
  /\ stream = StreamAtRest
  /\ enumeration = EnumerationOf(<<>>)
  /\ test_run = TestAtRest
  /\ wake_callback = WakeCallbackAtRest

Spec == Init /\ [][Next]_vars

\* podcast_assistant_app.py, with the single-file application at rest
InitModular ==
  /\ Install(InitWorld(TRUE, TRUE, "ok"))
  /\ InitApp
  /\ stream = StreamAtRest
  /\ enumeration = EnumerationOf(<<>>)
  /\ test_run = TestAtRest
  /\ wake_callback = WakeCallbackAtRest

SpecApp == InitModular /\ [][NextApp]_vars

\* podcast_assistant_app.py with its worker threads scheduled: a loop that can
\* make a pass eventually makes it
SpecAppLive ==
  SpecApp /\ WF_vars(AppProcessAudio) /\ WF_vars(AppAudioGenerator)

\* one call of LanguageModelService.get_streaming_response, for every ApiKey
\* and every stream of lines, both applications at rest
InitStream ==
  /\ Install(InitWorld(TRUE, TRUE, "ok"))
  /\ \E api_key \in ApiKeys : AppInstall(InitAppWorld(TRUE, api_key))
  /\ \E lines \in StreamInputs : stream = [StreamAtRest EXCEPT !.lines = lines]
  /\ enumeration = EnumerationOf(<<>>)
  /\ test_run = TestAtRest
  /\ wake_callback = WakeCallbackAtRest

SpecStream == InitStream /\ [][NextStream]_vars

\* one call of list_audio_devices of each AudioHandler class, for every list of
\* at most MaxDevices devices, both applications at rest
InitDevices ==
  /\ Install(InitWorld(TRUE, TRUE, "ok"))
  /\ AppInstall(InitAppWorld(TRUE, PlaceholderKey))
  /\ stream = StreamAtRest
  /\ \E devices \in DeviceLists : enumeration = EnumerationOf(devices)
  /\ test_run = TestAtRest
  /\ wake_callback = WakeCallbackAtRest

SpecDevices == InitDevices /\ [][NextDevices]_vars

\* one run of test_services, with both applications at rest
InitTest ==
  /\ Install(InitWorld(TRUE, TRUE, "ok"))
  /\ AppInstall(InitAppWorld(TRUE, PlaceholderKey))
  /\ stream = StreamAtRest
  /\ enumeration = EnumerationOf(<<>>)
  /\ \E credentials \in CredentialFiles, api_key \in ApiKeys, model_exists \in BOOLEAN :
       test_run = TestRunOf("stt", credentials, api_key, model_exists)
  /\ wake_callback = WakeCallbackAtRest

SpecTest == InitTest /\ [][NextTest]_vars

\* the wake listener of podcast_assistant.py driven call by call, for every
\* configuration, with the rest of both applications at rest
InitWake ==
  /\ InitMono
  /\ AppInstall(InitAppWorld(TRUE, PlaceholderKey))
  /\ stream = StreamAtRest
  /\ enumeration = EnumerationOf(<<>>)
  /\ test_run = TestAtRest
  /\ wake_callback = WakeCallbackAtRest

SpecWake == InitWake /\ [][NextWake]_vars

(* ------------------------------- properties ---------------------------- *)
\* a run in which no vendor call failed and the speech backend raised no event
Undisturbed == env.faults = 0 /\ env.stt_events = 0

\* the frames the device delivered, in the order of capture
FramesCaptured == [k \in 1..env.frames |-> k]

\* the texts listen_for_single_question_async returns for a failed capture
FailedCaptures ==
  {strip(QuestionNoMatch), strip(QuestionCanceled), strip(QuestionNotConfigured),
   strip(QuestionException)}

\* C1: at most one LLM backend call is in flight at any time: no second
\* _ask_llm_thread_target runs while an earlier one has not queued its result
C1_OneLlmCallInFlight == Len(llm_threads) <= 1

\* C2: once the answer to a wake-triggered question is delivered and nothing of
\* the question is left to run (no capture thread, no scheduled callback, no LLM
\* call, no queued result or wake event), the application has left
\* question-capture mode
C2_LeavesQuestionCapture ==
  (/\ strip(ui.question_entry) = strip(QuestionRecognized)
   /\ ui.ai_answer_text_area \in {LlmAnswer, LlmApiError}
   /\ capture_threads = 0
   /\ after_queue = <<>>
   /\ llm_threads = <<>>
   /\ llm_results_queue = <<>>
   /\ wake_word_event_queue = <<>>)
  => ~app.is_listening_for_question

\* C3: a failed capture of the spoken question (timeout, exception, cancellation,
\* no match) makes no LLM call: no call in flight carries the text of a failed capture
C3_FailedCaptureMakesNoLlmCall ==
  \A i \in 1..Len(llm_threads) : llm_threads[i].question \notin FailedCaptures

\* C4: in a recording session that was paused for a spoken question and resumed
\* (the flag is set again), audio is forwarded: a forwarding loop runs and the
\* push stream of the recognizer is open
C4_ResumeRestoresForwarding ==
  (/\ Undisturbed
   /\ env.starts = 1
   /\ env.wake_events > 0
   /\ audio_handler.is_recording
   /\ ~app.is_listening_for_question
   /\ stt_service.speech_recognizer
   /\ stt_service.active)
  => (audio_threads # <<>> /\ stt_service.push_stream = "open")

\* C5: wake-word listening and a recording session are never active together
C5_WakeAndRecordingExclusive ==
  ~(wake_word_detector.is_detecting /\ audio_handler.is_recording)

\* C6: at most one recording session is active: never more than one live
\* forwarding loop, and never more than one running recognizer
C6_OneForwardingLoop ==
  /\ Len(audio_threads) <= 1
  /\ (IF stt_backend.current THEN 1 ELSE 0) + stt_backend.leaked <= 1

\* C7: a session whose audio source failed to start is not left with the
\* transcription service running: when the recording thread has ended without
\* recording and Stop is not offered, no recognizer and no forwarding loop is left
C7_StartFailsAsAWhole ==
  (/\ env.starts = 1
   /\ recording_threads = <<>>
   /\ ~audio_handler.is_recording
   /\ ~ui.stop_listening_button)
  => (/\ ~stt_service.speech_recognizer
      /\ ~stt_service.active
      /\ audio_threads = <<>>)

\* C8: after handle_stop_listening has returned from a session that recorded,
\* the frame queue and the transcript-event queue are empty and the transcription
\* service is stopped (no forwarding loop, recognizer released)
C8_StopLeavesQueuesEmpty ==
  (/\ Undisturbed
   /\ env.starts = 1
   /\ env.frames > 0
   /\ recording_threads = <<>>
   /\ ~audio_handler.is_recording
   /\ ~ui.stop_listening_button)
  => (/\ audio_queue = <<>>
      /\ stt_results_queue = <<>>
      /\ audio_threads = <<>>
      /\ ~stt_service.speech_recognizer)

\* C9: when the audio source has queued its frames and then the stop sentinel
\* and the forwarding loop has ended, the loop has written exactly the frames
\* captured, in the order of capture
C9_ForwardsEveryFrameInOrder ==
  (/\ Undisturbed
   /\ env.wake_events = 0
   /\ env.starts = 1
   /\ env.frames > 0
   /\ ~audio_handler.is_recording
   /\ audio_threads = <<>>)
  => stt_backend.written = FramesCaptured

\* C10: once the recording session is stopped, its _process_audio loop has
\* ended and nothing is left on the queue of the speech service, the other
\* consumer loops of the session have ended too: no _audio_generator is left
\* polling and no _process_response thread is left waiting
C10_ConsumersTerminate ==
  (/\ ~recorder.is_recording
   /\ workers.process_audio = 0
   /\ speech_service.audio_queue = <<>>)
  => (workers.generators = 0 /\ workers.processing = 0)

\* the last element of a sequence
Last(s) == s[Len(s)]

\* the texts of the Final events of a queue of transcript events, in order
RECURSIVE FinalTexts(_)
FinalTexts(q) ==
  IF q = <<>> THEN <<>>
  ELSE (IF Head(q).type = "final" THEN <<Head(q).text>> ELSE <<>>) \o FinalTexts(Tail(q))

\* a transcript extended by texts, each non-empty text followed by one space
RECURSIVE AppendedWithSpace(_, _)
AppendedWithSpace(t, texts) ==
  IF texts = <<>> THEN t
  ELSE AppendedWithSpace(IF Head(texts) = <<>> THEN t ELSE t \o Head(texts) \o <<WS>>,
                         Tail(texts))

\* a transcript extended by texts, with one space between two texts
RECURSIVE JoinedWithSpace(_, _)
JoinedWithSpace(t, texts) ==
  IF texts = <<>> THEN t
  ELSE JoinedWithSpace(IF t = <<>> THEN Head(texts) ELSE t \o <<WS>> \o Head(texts),
                       Tail(texts))

\* the step is a pass of the poll that drains the transcript-event queue
PollDrains == stt_results_queue # <<>> /\ stt_results_queue' = <<>>

\* the step is a click on "Start Listening"
StartClicked == env.starts' # env.starts

\* C12 (as the spec states it): the Final texts handled in a session are joined
\* with a single separating space
C12_SingleSeparatingSpace ==
  [][(PollDrains /\ ~StartClicked)
       => app.full_transcription'
            = JoinedWithSpace(app.full_transcription, FinalTexts(stt_results_queue))]_vars

\* C12 (amended): within a session the Transcript is the ordered concatenation of
\* the non-empty Final texts handled, each followed by one space (a Final event
\* with an empty text adds nothing); it changes only in the poll, so its length
\* never decreases, and a click on Start empties it
C12_TranscriptIsConcatenation ==
  [][app.full_transcription'
       = IF StartClicked THEN <<>>
         ELSE IF PollDrains
              THEN AppendedWithSpace(app.full_transcription, FinalTexts(stt_results_queue))
              ELSE app.full_transcription]_vars

\* C12: two Final texts have been appended in one session
C12_TwoFinalsAppended ==
  /\ env.starts = 1
  /\ Len(SelectSeq(app.full_transcription, LAMBDA c : c = WS)) = 2

\* stopSession has completed (or no session was started): "Stop Listening" is
\* disabled and the service holds no recognizer
SessionStopped == ~ui.stop_listening_button /\ ~stt_service.speech_recognizer

\* C13: no text is appended to the Transcript after stopSession has completed
\* and before the next startSession
C13_NoTextAfterStop ==
  [][(SessionStopped /\ ~StartClicked)
       => app.full_transcription' = app.full_transcription]_vars

\* the step starts one more LLM worker
LlmWorkerStarted == Len(llm_threads') = Len(llm_threads) + 1

\* the step is a click on "Ask AI": a worker started by no scheduled callback
ManualAsk == LlmWorkerStarted /\ after_queue' = after_queue

\* the last n characters of a text
LastChars(s, n) == [i \in 1..n |-> s[Len(s) - n + i]]

\* C14: a manual question asked with a Transcript longer than 2000 characters
\* is sent with exactly the last 2000 characters of the Transcript as context,
\* and with the whole Transcript otherwise
C14_ManualContextIsLast2000 ==
  [][ManualAsk
       => Last(llm_threads').context
            = IF Len(app.full_transcription) > SnippetMaxLength
              THEN LastChars(app.full_transcription, SnippetMaxLength)
              ELSE app.full_transcription]_vars

\* C14: a manual question is in flight with a context cut to 2000 characters
C14_ContextWasCut ==
  /\ llm_threads # <<>>
  /\ Len(app.full_transcription) > SnippetMaxLength
  /\ Len(Last(llm_threads).context) = SnippetMaxLength
  /\ ~app.is_listening_for_question

\* the step dispatches a spoken question: a worker started by a scheduled callback
SpokenAsk == LlmWorkerStarted /\ after_queue' # after_queue

\* the step is the pass of the poll that handles a wake event
WakeHandled == ~app.is_listening_for_question /\ app.is_listening_for_question'

\* C15: the context sent with a spoken question is the Transcript as it was when
\* the wake event was handled: the poll that handles the wake event records the
\* Transcript, nothing changes the record before the question is dispatched, and
\* the dispatch sends the record whole
C15_SpokenContextIsSnapshot ==
  [][/\ WakeHandled => app.context_for_spoken_question' = app.full_transcription'
     /\ ~WakeHandled => app.context_for_spoken_question' = app.context_for_spoken_question
     /\ SpokenAsk => /\ app.is_listening_for_question
                     /\ Last(llm_threads').context = app.context_for_spoken_question]_vars

\* C15: a spoken question is in flight with a context longer than 2000 characters
C15_LongSnapshotSent ==
  /\ llm_threads # <<>>
  /\ app.is_listening_for_question
  /\ Len(Last(llm_threads).context) > SnippetMaxLength
  /\ Last(llm_threads).context = app.context_for_spoken_question

\* the step raises the "Input Needed" message box
InputNeededRaised == ui.messagebox # "Input Needed" /\ ui.messagebox' = "Input Needed"

\* C16: a question that is empty, whitespace only or the placeholder is never
\* sent: no worker is started with such a question, and the step that rejects
\* it starts no worker and leaves the Ask control as it was
C16_BlankQuestionRejected ==
  [][/\ LlmWorkerStarted
          => /\ Last(llm_threads').question # <<>>
             /\ Last(llm_threads').question # Placeholder
             /\ strip(Last(llm_threads').question) = Last(llm_threads').question
     /\ InputNeededRaised
          => /\ llm_threads' = llm_threads
             /\ ui.ask_ai_button' = ui.ask_ai_button
             /\ ui.ask_ai_button_text' = ui.ask_ai_button_text]_vars

\* C16: a whitespace-only question was asked and rejected with nothing in flight
C16_BlankQuestionAsked ==
  /\ ui.messagebox = "Input Needed"
  /\ strip(ui.question_entry) = <<>>
  /\ ui.question_entry # <<>>
  /\ llm_threads = <<>>
  /\ ui.ask_ai_button_text = "Ask AI"

\* nothing is in flight: no worker, no capture, no queued result, event or
\* callback, no key held down
Quiescent ==
  /\ llm_threads = <<>>
  /\ llm_results_queue = <<>>
  /\ capture_threads = 0
  /\ after_queue = <<>>
  /\ wake_word_event_queue = <<>>
  /\ ~ui.key_down

\* the question entry holds a question
HasQuestion ==
  strip(ui.question_entry) # <<>> /\ strip(ui.question_entry) # Placeholder

\* C19: once the error string of a failed manual question has been delivered
\* and nothing is in flight any more, the Ask control is enabled again for the
\* question in the entry
C19_AskEnabledAfterFailure ==
  (/\ Quiescent
   /\ llm_service.is_configured
   /\ \E k \in 1..Len(env.failed) : env.failed[k] \in TypedQuestions
   /\ HasQuestion)
    => ui.ask_ai_button

\* a Final event is waiting in the transcription queue of the modular application
FinalProduced ==
  \E k \in 1..Len(speech_service.transcription_queue) :
    speech_service.transcription_queue[k].type = "final"

\* C11: every Final event the transcription service produces is eventually
\* appended to the Transcript from which the question context is taken
C11_FinalsReachTranscript ==
  FinalProduced ~> (recorder.full_transcription # <<>>)

\* the ApiKey of config.ini is missing or is the placeholder value
KeyMissingOrPlaceholder == app_env.api_key \in {MissingKey, PlaceholderKey}

\* C17: with a missing or placeholder API key the Ask action is unreachable
\* from the UI: its handler never runs
C17_AskUnreachableWithoutKey ==
  KeyMissingOrPlaceholder
    => /\ recorder.messagebox = "none"
       /\ recorder.answer_text = <<>>
       /\ workers.ai = <<>>

\* C18: configure fails closed: with a missing or placeholder API key the
\* service stays not configured
C18_ConfigureFailsClosed ==
  KeyMissingOrPlaceholder
    => /\ ~language_model.is_available
       /\ language_model.api_key = NoKey

\* the non-empty text fragments of the well-formed chunks before the
\* end-of-stream marker, in order; any other line is skipped
RECURSIVE ExpectedFragments(_)
ExpectedFragments(lines) ==
  IF lines = <<>> \/ Head(lines).kind = "done" THEN <<>>
  ELSE (IF Head(lines).kind = "delta" /\ Head(lines).content # ""
        THEN <<Head(lines).content>> ELSE <<>>)
       \o ExpectedFragments(Tail(lines))

\* the generator has ended on a request that the backend accepted
StreamCompleted ==
  /\ stream.pc = "done"
  /\ language_model.is_available
  /\ \A k \in 1..Len(stream.yielded) : stream.yielded[k] # HttpError

\* C20: a completed stream has yielded exactly the non-empty fragments of the
\* well-formed chunks before the end-of-stream marker, in order, with no error
\* for a malformed chunk and nothing after the marker
C20_YieldsFragmentsInOrder ==
  StreamCompleted => stream.yielded = ExpectedFragments(stream.lines)

\* C21: the audio callback enqueues a frame only while the source is recording,
\* and stop_recording called on an active recording enqueues exactly one
\* sentinel behind the frames of the session and leaves the source not recording
C21_SentinelEndsSession ==
  [][/\ (Len(mic'.aq) > Len(mic.aq) /\ Last(mic'.aq) # Sentinel)
          => mic.ah.is_recording
     /\ (recorder.is_recording /\ ~recorder'.is_recording
           /\ mic.ah.is_recording /\ mic.ah.input_stream)
          => /\ mic'.aq = Append(mic.aq, Sentinel)
             /\ ~mic'.ah.is_recording]_vars

\* C22: when the input device fails to open or to start, start_recording leaves
\* the source not recording with no negotiated format, no running device stream
\* and nothing enqueued, the failure is reported (the buttons are reset), and no
\* other attempt to open the device is started (the step is a recording thread
\* that ends on a failed device call)
C22_FailedStartResets ==
  [][(Len(recording_threads') < Len(recording_threads) /\ env'.faults > env.faults)
       => /\ ~audio_handler'.is_recording
          /\ ~audio_handler'.format
          /\ audio_handler'.streams = audio_handler.streams
          /\ audio_queue' = audio_queue
          /\ Len(recording_threads') = Len(recording_threads) - 1
          /\ ui'.start_listening_button /\ ~ui'.stop_listening_button]_vars

\* C22: the device stream was created and failed to start, and the source is
\* not recording
C22_DeviceFailedToStart ==
  /\ audio_handler.input_stream
  /\ audio_handler.streams = 0
  /\ ~audio_handler.is_recording
  /\ ~audio_handler.format
  /\ recording_threads = <<>>
  /\ env.faults = 1

\* a device whose name marks it as a loopback or "stereo mix" capture source
LoopbackLike(d) == d.name \in {"Stereo Mix (Realtek)", "Loopback Audio"}

\* a returned list holds exactly the devices with an input channel, once each,
\* and every loopback-like device precedes every other device
RankedInputDevices(listed, devices) ==
  /\ \A i \in 1..Len(devices) :
       (devices[i].max_input_channels > 0)
         <=> (\E k \in 1..Len(listed) : listed[k].index = i - 1)
  /\ \A k \in 1..Len(listed) :
       /\ listed[k].index + 1 \in 1..Len(devices)
       /\ listed[k].name = devices[listed[k].index + 1].name
       /\ \A j \in 1..Len(listed) : listed[j].index = listed[k].index => j = k
  /\ \A j, k \in 1..Len(listed) :
       (LoopbackLike(listed[k]) /\ ~LoopbackLike(listed[j])) => k < j

\* C23: device enumeration returns exactly the devices with at least one input
\* channel, and every loopback or "stereo mix"-like device precedes every other
\* device of the returned list
C23_LoopbackDevicesFirst ==
  enumeration.pc = "listed"
    => /\ RankedInputDevices(enumeration.single_file, enumeration.devices)
       /\ RankedInputDevices(enumeration.modular, enumeration.devices)

\* C24: wake detection is single-shot: a wake event is emitted only by a
\* listener that was started and is still connected, emitting it stops and
\* disconnects the listener, and it listens connected again only after a step
\* that calls start_detection: "Stop Listening", the poll, or the end of a
\* spoken-question capture
C24_WakeIsSingleShot ==
  [][/\ (Len(SelectSeq(wake_word_event_queue', LAMBDA e : e.type = "WAKE_WORD_DETECTED"))
           > Len(SelectSeq(wake_word_event_queue, LAMBDA e : e.type = "WAKE_WORD_DETECTED")))
          => /\ wake_word_detector.listening /\ wake_word_detector.connected
             /\ ~wake_word_detector'.listening
             /\ ~wake_word_detector'.connected
             /\ ~wake_word_detector'.is_detecting
             /\ Len(wake_word_event_queue') = Len(wake_word_event_queue) + 1
     /\ (~(wake_word_detector.listening /\ wake_word_detector.connected)
           /\ wake_word_detector'.listening /\ wake_word_detector'.connected)
          => (UserStopsListening \/ CheckAllQueues \/ AfterCallback)]_vars

\* C24: a wake event has been emitted and the listener is stopped and disconnected
C24_WakeEmittedListenerStopped ==
  /\ \E k \in 1..Len(wake_word_event_queue) :
       wake_word_event_queue[k].type = "WAKE_WORD_DETECTED"
  /\ ~wake_word_detector.listening
  /\ ~wake_word_detector.connected
  /\ env.wake_events = 1

\* C25: stopping the transcription service is idempotent: in every reachable
\* state, whether the service is running, already stopped or was never started,
\* a second stop() right after a stop() leaves the whole state, the errors queue
\* included, as the first one left it, and a stop() of a service that holds no
\* recognizer reports no error
C25_StopIsIdempotent ==
  \A first, second \in {"ok", "raises"} :
    /\ stt_stop(stt_stop(World, first), second) = stt_stop(World, first)
    /\ ~stt_service.speech_recognizer => stt_stop(World, first).eq = stt_errors_queue

\* C25 witness: a started session was stopped and that stop reported an error
C25_StoppedWithError ==
  /\ env.starts >= 1
  /\ ~ui.stop_listening_button
  /\ ~stt_service.speech_recognizer
  /\ stt_service.push_stream = "none"
  /\ \E i \in 1..Len(stt_errors_queue) : stt_errors_queue[i] = "STT Stop Error"

C27_PlaceholderDisablesAsk ==
  KeyMissingOrPlaceholder
    => /\ ~language_model.is_available
       /\ ~recorder.ask_button

\* C28: every constructor and configure call of test_services returns without
\* raising, whatever the credentials file, the API key and the model file are,
\* and a run that has passed its last configure call has printed the success
\* message
C28_TestServicesSucceeds ==
  /\ test_run.raised = "none"
  /\ test_run.pc \notin {"idle", "stt", "stt.configure", "lm", "lm.configure",
                         "wwd", "wwd.configure", "audio", "audio.configure"}
       => test_run.printed

\* a wake event waits on the queue
WakeQueued ==
  \E k \in 1..Len(wake_word_event_queue) :
    wake_word_event_queue[k].type = "WAKE_WORD_DETECTED"

\* C29: a poll that handles a wake event while a spoken-question capture is in
\* progress starts no capture thread, keeps the saved context snapshot and the
\* forwarding flag of the transcription service, and leaves the capture in
\* progress; a poll that finds several wake events starts at most one capture
C29_WakeIgnoredDuringCapture ==
  [][/\ (app.is_listening_for_question /\ WakeQueued /\ wake_word_event_queue' = <<>>)
          => /\ capture_threads' = capture_threads
             /\ app'.context_for_spoken_question = app.context_for_spoken_question
             /\ stt_service'.active = stt_service.active
             /\ app'.is_listening_for_question
             /\ ui'.question_entry = ui.question_entry
     /\ (WakeQueued /\ wake_word_event_queue' = <<>>)
          => capture_threads' <= capture_threads + 1]_vars

\* C29 witness: a capture is in progress, its thread is alive, and a second wake
\* event waits for the next poll
C29_WakeDuringCapture ==
  /\ app.is_listening_for_question
  /\ capture_threads = 1
  /\ WakeQueued
  /\ env.wake_events = 2

\* a Final event with text waits on the transcript-event queue
FinalWithTextQueued ==
  \E k \in 1..Len(stt_results_queue) :
    stt_results_queue[k].type = "final" /\ stt_results_queue[k].text # <<>>

\* C30: a poll that handles only Intermediate, NoMatch and Error events and
\* Final events with empty text leaves the Transcript as it was, and apart from
\* the click on Start that empties it, the Transcript changes only in a poll
\* that handles a Final event with text
C30_OnlyFinalTextChangesTranscript ==
  [][/\ ((stt_results_queue # <<>> \/ stt_errors_queue # <<>>)
           /\ stt_results_queue' = <<>> /\ stt_errors_queue' = <<>>
           /\ ~FinalWithTextQueued /\ ~StartClicked)
          => app.full_transcription' = app.full_transcription
     /\ (app.full_transcription' # app.full_transcription /\ ~StartClicked)
          => (FinalWithTextQueued /\ stt_results_queue' = <<>>)]_vars

\* C30 witness: the Transcript holds text, and events none of which is a Final
\* with text wait for the next poll
C30_OtherEventsQueued ==
  /\ app.full_transcription # <<>>
  /\ stt_results_queue # <<>>
  /\ ~FinalWithTextQueued

\* C31: the steps of the background workers (the recording starter, the
\* forwarding loop, the recognition callbacks, the wake callbacks, the
\* spoken-question capture and the LLM worker) leave the widgets as they are;
\* what they report goes onto a queue or is scheduled for the UI thread
C31_WorkersLeaveWidgetsAlone ==
  [][(\/ RecordingThreadQuery \/ RecordingThreadOpen
      \/ AudioThreadGet \/ AudioThreadWrite
      \/ SttRecognizing \/ SttRecognized \/ SttNoMatch \/ SttSessionStopped \/ SttCanceled
      \/ WakeRecognized \/ WakeCanceled
      \/ CaptureThreadListen \/ LlmThreadDone)
       => ui' = ui]_vars

\* C32: a wake-word backend error is reported and the detection is abandoned:
\* the poll that handles the error event does not start wake detection again
C32_NoRestartAfterWakeError ==
  [][CheckAllQueues
       => /\ wake_word_detector'.is_detecting => wake_word_detector.is_detecting
          /\ wake_word_detector'.listening => wake_word_detector.listening
          /\ wake_word_detector'.connected => wake_word_detector.connected]_vars

\* C33: "Stop Listening" stops the transcription service before the audio
\* source: when the first call of the handler has returned with the audio
\* source stopped, the transcription service holds no recognizer any more
C33_TranscriptionStoppedFirst ==
  (ui.stop_listening_button /\ audio_handler.is_recording /\ audio_handler.input_stream
     /\ stt_service.speech_recognizer)
    => LET w1 == handle_stop_listening_first(World, "ok")
       IN ~w1.ah.is_recording => ~w1.stt.speech_recognizer

\* C34: in every reachable state stop() of the transcription service returns
\* with the recognizer released, the forwarding flag cleared, the forwarding
\* loop joined and no push stream, and stop_detection() of the wake listener
\* returns with is_detecting cleared and the handlers disconnected, also when
\* the backend stop call raises or times out; a failing stop of a running
\* recognizer puts one "STT Stop Error" on the errors queue
C34_StopAlwaysCompletes ==
  \A outcome \in {"ok", "raises"} :
    LET s == stt_stop(World, outcome)
        d == wwd_stop_detection(World, outcome)
    IN /\ ~s.stt.speech_recognizer
       /\ ~s.stt.active
       /\ s.stt.push_stream = "none"
       /\ ~TrackedAlive(s)
       /\ (stt_service.speech_recognizer /\ outcome = "raises")
            => s.eq = Append(stt_errors_queue, "STT Stop Error")
       /\ ~d.wwd.is_detecting
       /\ ~d.wwd.connected

\* C34 witness: the stop of the wake listener failed at "Start Listening": the
\* backend still listens, and the listener is not detecting and disconnected
C34_WakeStopFailed ==
  /\ env.starts = 1
  /\ env.faults = 1
  /\ wake_word_detector.listening
  /\ ~wake_word_detector.is_detecting
  /\ ~wake_word_detector.connected
  /\ stt_service.speech_recognizer

\* C35: once stop_recording() has returned the audio source is not recording:
\* the state "is_recording set, no input stream" is unreachable, so no later
\* start_recording is rejected as already in progress
C35_StoppedSourceNotRecording ==
  ~(audio_handler.is_recording /\ ~audio_handler.input_stream)

\* C36: every session's consumer starts on a frame queue that holds nothing of
\* an earlier session: in the step that starts a _process_audio loop, what
\* waited on the frame queue before the step is not left at its head
C36_ConsumerStartsOnOwnItems ==
  [][(workers'.process_audio > workers.process_audio /\ mic.aq # <<>>)
       => \/ Len(mic'.aq) < Len(mic.aq)
          \/ SubSeq(mic'.aq, 1, Len(mic.aq)) # mic.aq]_vars

\* C37: no Final event of an earlier session reaches the Transcript of a later
\* one: when "Start Listening" has emptied the Transcript and started the
\* session, no Final event with text is left waiting on the results queue
C37_NoEarlierFinalAtStart ==
  [][(StartClicked /\ ui'.stop_listening_button)
       => /\ app'.full_transcription = <<>>
          /\ \A k \in 1..Len(stt_results_queue') :
               ~(stt_results_queue'[k].type = "final" /\ stt_results_queue'[k].text # <<>>)]_vars

\* C38: while the device stream of a session records and the recognizer of the
\* session exists, the push stream of the recognizer was created with the
\* sample rate and channel count negotiated with that device, not with those
\* of the fallback query of the default input device
C38_BackendFormatIsDeviceFormat ==
  (audio_handler.is_recording /\ audio_handler.input_stream /\ stt_service.speech_recognizer)
    => stt_service.stream_format = "device"

\* C39: the index passed to start_recording is the system device index of the
\* entry selected in the device list, in both applications
C39_OpensSelectedDevice ==
  enumeration.pc = "started"
    => /\ enumeration.single_file_device
            = enumeration.single_file[enumeration.current + 1].index
       /\ enumeration.modular_device
            = enumeration.modular[enumeration.current + 1].index

\* C40: after stop_detection() has returned and until start_detection() is
\* called again, no wake event is placed on the wake-event queue
C40_NoWakeEventAfterStop ==
  [][(wake_callback.stopped /\ wake_callback'.stopped)
       => Len(SelectSeq(wake_word_event_queue', LAMBDA e : e.type = "WAKE_WORD_DETECTED"))
            <= Len(SelectSeq(wake_word_event_queue, LAMBDA e : e.type = "WAKE_WORD_DETECTED"))]_vars

====
